---- MODULE Spec2Model ----
(***************************************************************************)
(* Model of the fork-race orchestration of flare_bypass_server.py:         *)
(* process_solve_request, wait_first_non_exception, deffered_call,         *)
(* get_user_agent and solve.  One request is followed from entry to its    *)
(* envelope; the attempts, the race coordinator and the identity fetch are *)
(* asyncio tasks that take their steps in any order the event loop allows. *)
(* Strings are sequences of tokens, so that concatenation is \o.           *)
(***************************************************************************)
EXTENDS Integers, Sequences, FiniteSets, TLC

\* ------------------------------------------------------------------ bounds
MaxGroups == 2
MaxForks == 2
MaxAttempts == 3
MaxDelay == 1
MaxTime == 2
MaxTimeoutSec == 1
MaxCookies == 2
MaxRequests == 2
MaxBatch == 2

\* ------------------------------------------------------- program constants
MsPerSec == 1000
SolutionStatus == 200

NoneStr == "<None>"
NoErr == [of |-> -9, text |-> <<>>]

\* ------------------------------------------------------------ pure helpers
Digit(d) == CASE d = 0 -> "0" [] d = 1 -> "1" [] d = 2 -> "2" [] d = 3 -> "3"
              [] d = 4 -> "4" [] d = 5 -> "5" [] d = 6 -> "6" [] d = 7 -> "7"
              [] d = 8 -> "8" [] OTHER -> "9"

RECURSIVE str(_)
\* Python str() of a non-negative int: its decimal digits.
str(n) == IF n < 10 THEN <<Digit(n)>> ELSE str(n \div 10) \o <<Digit(n % 10)>>

Truthy(s) == s # NoneStr /\ s # ""

\* urllib3.util.parse_url: a url is held as the components the parser finds.
Urls == { [scheme |-> "http", auth |-> "x:y", hostname |-> "1.2.3.4", port |-> 8080],
          [scheme |-> NoneStr, auth |-> NoneStr, hostname |-> "1.2.3.4", port |-> 8080] }

\* The proxy argument: None, a string, or a ProxyModel (lines 87-90, 203).
ProxyInputs == { [kind |-> "model", url |-> <<x>>, username |-> "u", password |-> "p"] : x \in Urls }

\* A wider range of proxy arguments: None, a string, and ProxyModels with
\* and without url, username, password, credentials in the url, a port.
AllUrls == [scheme : {"http", "socks5"}, auth : {NoneStr, "x:y"},
            hostname : {"1.2.3.4"}, port : {0, 8080}] \cup Urls

AllProxyInputs ==
  { [kind |-> "none"], [kind |-> "str", value |-> "http://a:b@9.9.9.9:3128"] }
  \cup { [kind |-> "model", url |-> u, username |-> n, password |-> w] :
           u \in {<<>>} \cup { <<x>> : x \in AllUrls },
           n \in {NoneStr, "u"}, w \in {NoneStr, "p"} }

\* The normalization with the credentials the url embeds kept when it has
\* them.
NormalizeProxy_UrlAuth(proxy) ==
  IF proxy.kind = "none" THEN [raised |-> FALSE, value |-> <<>>]
  ELSE IF proxy.kind = "str" THEN [raised |-> FALSE, value |-> << <<proxy.value>> >>]
  ELSE IF proxy.url = <<>> THEN [raised |-> FALSE, value |-> <<>>]
  ELSE LET parsed_proxy == proxy.url[1] IN
    IF parsed_proxy.scheme = NoneStr \/ parsed_proxy.hostname = NoneStr
    THEN [raised |-> TRUE, value |-> <<>>]
    ELSE [raised |-> FALSE, value |-> <<
           <<parsed_proxy.scheme, "://">>
           \o (IF Truthy(parsed_proxy.auth) THEN <<parsed_proxy.auth, "@">>
               ELSE IF Truthy(proxy.username)
               THEN <<proxy.username, ":",
                      (IF Truthy(proxy.password) THEN proxy.password ELSE ""), "@">>
               ELSE <<>>)
           \o <<parsed_proxy.hostname>>
           \o (IF parsed_proxy.port # 0 THEN <<":">> \o str(parsed_proxy.port) ELSE <<>>) >>]

\* Lines 210-223.  The result is [raised, value]: value is <<>> for None and
\* <<tokens>> for a string; raised is TRUE when an operand of + is None.
NormalizeProxy(proxy) ==
  IF proxy.kind = "none" THEN [raised |-> FALSE, value |-> <<>>]
  ELSE IF proxy.kind = "str" THEN [raised |-> FALSE, value |-> << <<proxy.value>> >>]
  ELSE IF proxy.url = <<>> THEN [raised |-> FALSE, value |-> <<>>]
  ELSE LET parsed_proxy == proxy.url[1] IN
    IF parsed_proxy.scheme = NoneStr \/ parsed_proxy.hostname = NoneStr
    THEN [raised |-> TRUE, value |-> <<>>]
    ELSE [raised |-> FALSE, value |-> <<
           <<parsed_proxy.scheme, "://">>
           \o (IF Truthy(proxy.username)
               THEN <<proxy.username, ":",
                      (IF Truthy(proxy.password) THEN proxy.password ELSE ""), "@">>
               ELSE <<>>)
           \o <<parsed_proxy.hostname>>
           \o (IF parsed_proxy.port # 0 THEN <<":">> \o str(parsed_proxy.port) ELSE <<>>) >>]

ProxyTypeErrorText == <<"unsupported operand type(s) for +: 'NoneType' and 'str'">>

\* solve() declares these parameters (lines 180-185).
SolveParams == {"solve_request", "proxy", "log_prefix", "solver_args"}
\* Keyword arguments of the primary attempt's call (lines 252-255).
PrimaryKwargs == {"proxy", "solver_args", "log_prefix"}
\* Keyword arguments of a forked attempt's call (lines 267-271).
ForkKwargs == {"proxy", "solver_args", "log_prefix", "fill_user_agent"}

\* Calling solve(solve_request, **kwargs): Python raises TypeError for a
\* keyword the function does not declare, before the body runs.
SolveCallAccepted(kwargs) == kwargs \subseteq SolveParams

UnexpectedKwText == <<"solve() got an unexpected keyword argument 'fill_user_agent'">>
SolverFailText(i) == <<"solver failure of fork #">> \o str(i)
MkdirFailText == <<"[Errno 13] Permission denied">>

\* The message built from the timeout in seconds instead of the argument.
TimeoutText_Seconds(max_timeout) ==
  <<"Processing timeout (max_timeout=">> \o str(max_timeout \div MsPerSec) \o <<")">>

\* Lines 174-175.
TimeoutText(max_timeout) == <<"Processing timeout (max_timeout=">> \o str(max_timeout) \o <<")">>
\* Line 177.
UserAgentErrText(inner) == <<"On user-agent getting: ">> \o inner

IdentityOf == -1
SetupOf == -2

\* Lines 307-312.
ErrorEnvelope(e, start, end) ==
  [status |-> "error", message |-> <<"Error: ">> \o e.text,
   startTimestamp |-> start, endTimestamp |-> end, solution |-> <<>>]

\* The cookies a Solver may hand back: dicts that always have name, value
\* and domain and may have any of the other four keys.
CookieOptional == [port |-> 443, path |-> "/p", secure |-> FALSE, expires |-> 1700]

SolverCookies ==
  { [name |-> n, value |-> "v", domain |-> "target"] @@ [k \in K |-> CookieOptional[k]] :
      n \in {"a", "b"}, K \in SUBSET {"port", "path", "secure", "expires"} }

CookieLists == UNION { [1..n -> SolverCookies] : n \in 0..MaxCookies }

\* CookieModel with the path default left out: an omitted path stays None.
CookieModel_NoPathDefault(cookie) ==
  [name |-> cookie.name,
   value |-> cookie.value,
   domain |-> cookie.domain,
   port |-> IF "port" \in DOMAIN cookie THEN <<cookie.port>> ELSE <<>>,
   path |-> IF "path" \in DOMAIN cookie THEN <<cookie.path>> ELSE <<>>,
   secure |-> IF "secure" \in DOMAIN cookie THEN <<cookie.secure>> ELSE <<TRUE>>,
   expires |-> IF "expires" \in DOMAIN cookie THEN <<cookie.expires>> ELSE <<>>]

\* Lines 93-102: CookieModel(**cookie).  A solver cookie is a dict: the keys
\* it omits take the field defaults.  An optional field is <<>> for None.
CookieModel(cookie) ==
  [name |-> cookie.name,
   value |-> cookie.value,
   domain |-> cookie.domain,
   port |-> IF "port" \in DOMAIN cookie THEN <<cookie.port>> ELSE <<>>,
   path |-> IF "path" \in DOMAIN cookie THEN <<cookie.path>> ELSE <<"/">>,
   secure |-> IF "secure" \in DOMAIN cookie THEN <<cookie.secure>> ELSE <<TRUE>>,
   expires |-> IF "expires" \in DOMAIN cookie THEN <<cookie.expires>> ELSE <<>>]

\* The envelope with its two timestamps exchanged.
OkEnvelope_EndBeforeStart(solve_response, user_agent, start, end) ==
  [status |-> "ok", message |-> solve_response.message,
   startTimestamp |-> end, endTimestamp |-> start,
   solution |-> << [status |-> SolutionStatus, url |-> solve_response.url,
                    cookies |-> [i \in 1..Len(solve_response.cookies) |->
                                   CookieModel(solve_response.cookies[i])],
                    userAgent |-> user_agent, of |-> solve_response.of] >>]

\* Lines 284-302.
OkEnvelope(solve_response, user_agent, start, end) ==
  [status |-> "ok", message |-> solve_response.message,
   startTimestamp |-> start, endTimestamp |-> end,
   solution |-> << [status |-> SolutionStatus, url |-> solve_response.url,
                    cookies |-> [i \in 1..Len(solve_response.cookies) |->
                                   CookieModel(solve_response.cookies[i])],
                    userAgent |-> user_agent, of |-> solve_response.of] >>]

\* What the Solver returns for attempt i.
SolveResult(i) ==
  [of |-> i, message |-> <<"Challenge solved!">>, url |-> <<"https://target/">>,
   cookies |-> << [name |-> "cf_clearance", value |-> "v", domain |-> "target"] >>]

\* DefferedForksModel values a request may carry (lines 105-109).
ForkGroups == [forks : 1..MaxForks, delay : 0..MaxDelay]

RECURSIVE SumForks(_)
SumForks(fs) == IF fs = <<>> THEN 0 ELSE fs[1].forks + SumForks(Tail(fs))

ForkLists == { fs \in UNION { [1..n -> ForkGroups] : n \in 0..MaxGroups } :
                 1 + SumForks(fs) <= MaxAttempts }

\* All orders in which a for loop may visit the members of a set.
Orders(S) == { o \in [1..Cardinality(S) -> S] : \A a, b \in 1..Cardinality(S) : a # b => o[a] # o[b] }

VARIABLES
  now,              \* the clock, in seconds
  pc,               \* position of process_solve_request
  start_timestamp,
  proxy_arg,        \* <<>> or <<the proxy argument as the caller passed it>>
  proxy,            \* the proxy after normalization: <<>> or <<string>>
  max_timeout,      \* msec
  solver_args,      \* the shared base configuration
  request_processing_default_args,
  local_solver_args,
  forks_arg,        \* the forks argument: <<>> for None, else <<the list>>
  forks,            \* the fork groups in effect
  forks_model,      \* the loop variable the fork lambdas close over
  solve_tasks,      \* the task factories, in submission order
  envelope,         \* <<>> or <<the HandleCommandResponse returned>>
  escaped,          \* <<>> or <<the exception that left process_solve_request>>
  gatherExc,        \* <<>> or <<first exception a gather child raised>>
  cpc,              \* position of wait_first_non_exception
  tasks,            \* the attempt tasks (task_features as created at line 129)
  task_features,    \* indices still in the list task_features
  to_cancel_tasks,
  skipped_results,
  exceptions,
  raceResult,       \* <<>> or <<result returned>>
  raceError,        \* <<>> or <<exception raised>>
  raceStart,        \* the time the tasks were launched
  completed,        \* attempt indices in the order they completed
  ipc,              \* position of get_user_agent
  deadline,         \* when its wait_for expires
  identErr,
  identStarts,      \* how many times get_user_agent was entered
  identArgs,        \* <<>> or <<the keyword arguments its Solver was constructed with>>
  processed,        \* the finished tasks in the order lines 138-148 visited them
  accepts,          \* the attempts whose result return_condition accepts
  rq,               \* concurrent requests in their setup (lines 237-247)
  uuid_next         \* the next value uuid4() gives

vars == <<now, pc, start_timestamp, proxy, max_timeout, solver_args,
          request_processing_default_args, local_solver_args,
          forks, forks_model, solve_tasks, envelope, escaped, gatherExc, cpc, tasks,
          task_features, to_cancel_tasks, skipped_results, exceptions, raceResult,
          raceError, raceStart, completed, ipc, deadline, identErr, forks_arg,
          proxy_arg, identStarts, identArgs, processed, accepts, rq, uuid_next>>

reqVars == <<pc, start_timestamp, proxy_arg, proxy, max_timeout, local_solver_args, forks_arg, forks,
             forks_model, solve_tasks, envelope, escaped>>
raceVars == <<cpc, tasks, task_features, to_cancel_tasks, skipped_results, exceptions,
              raceResult, raceError, raceStart, completed, processed>>
identVars == <<ipc, deadline, identErr, identStarts, identArgs>>

\* main() sets both directories from the command line (lines 682-683) and
\* the default fork groups from --forks (lines 677-678).
\* A directory is <<>> for None, else the tokens of its path.
Configs == { [solver_args |-> [debug_dir |-> <<>>, challenge_screenshots_dir |-> <<>>],
              default_args |-> [forks |-> <<>>]],
             [solver_args |-> [debug_dir |-> <<"/dbg">>, challenge_screenshots_dir |-> <<"/shots">>],
              default_args |-> [forks |-> <<[forks |-> 1, delay |-> 1]>>]] }

\* The attempts of a batch, by index: the default return_condition accepts all.
AllAttempts == 0..(MaxAttempts - 1)

Init ==
  /\ now = 0
  /\ pc = "entry"
  /\ start_timestamp = 0
  /\ proxy_arg = <<>>
  /\ proxy = <<>>
  /\ max_timeout = MsPerSec
  /\ \E c \in Configs : /\ solver_args = c.solver_args
                         /\ request_processing_default_args = c.default_args
  /\ local_solver_args = [debug_dir |-> <<>>, challenge_screenshots_dir |-> <<>>]
  /\ forks_arg = <<>>
  /\ forks = <<>>
  /\ forks_model = 0
  /\ solve_tasks = <<>>
  /\ envelope = <<>>
  /\ escaped = <<>>
  /\ gatherExc = <<>>
  /\ cpc = "idle"
  /\ tasks = <<>>
  /\ task_features = {}
  /\ to_cancel_tasks = {}
  /\ skipped_results = <<>>
  /\ exceptions = <<>>
  /\ raceResult = <<>>
  /\ raceError = <<>>
  /\ raceStart = 0
  /\ completed = <<>>
  /\ ipc = "idle"
  /\ deadline = 0
  /\ identErr = NoErr
  /\ identStarts = 0
  /\ identArgs = <<>>
  /\ processed = <<>>
  /\ accepts = AllAttempts
  /\ rq = <<>>
  /\ uuid_next = 1

\* What no step of one request's pipeline changes.
confVars == <<solver_args, request_processing_default_args, accepts, rq, uuid_next>>

\* ------------------------------------------------- process_solve_request
\* Lines 207-223: the start timestamp and the proxy normalization, which
\* run before the try block is entered.
EntryWith(inputs) ==
  /\ pc = "entry"
  /\ \E p \in inputs, mt \in 1..MaxTimeoutSec :
       LET r == NormalizeProxy(p) IN
       /\ proxy_arg' = <<p>>
       /\ max_timeout' = mt * MsPerSec
       /\ start_timestamp' = now
       /\ IF r.raised
          THEN /\ escaped' = << [of |-> SetupOf, text |-> ProxyTypeErrorText] >>
               /\ pc' = "done"
               /\ proxy' = proxy
          ELSE /\ escaped' = escaped
               /\ pc' = "try"
               /\ proxy' = r.value
  /\ UNCHANGED <<now, confVars, local_solver_args, forks_arg, forks, forks_model,
                 solve_tasks, envelope, gatherExc, raceVars, identVars>>

Entry == EntryWith(ProxyInputs)

\* Lines 237-247: the per-request copy of solver_args and its directories.
\* mkdir fails or not; uuid4 gives the request its own subdirectory.
IsolatedDir(base) == IF base # <<>> THEN base \o <<"/", "uuid4">> ELSE base

\* The setup with a failed mkdir reported but not ending the request.
Setup_NoAbort ==
  /\ pc = "try"
  /\ \E mkdir_ok \in BOOLEAN :
       IF (solver_args.debug_dir # <<>> \/ solver_args.challenge_screenshots_dir # <<>>)
          /\ ~mkdir_ok
       THEN /\ envelope' = << ErrorEnvelope([of |-> SetupOf, text |-> MkdirFailText],
                                            start_timestamp, now) >>
            /\ pc' = "plan"
            /\ local_solver_args' = local_solver_args
       ELSE /\ local_solver_args' =
                 [debug_dir |-> IsolatedDir(solver_args.debug_dir),
                  challenge_screenshots_dir |-> IsolatedDir(solver_args.challenge_screenshots_dir)]
            /\ pc' = "plan"
            /\ envelope' = envelope
  /\ UNCHANGED <<now, confVars, start_timestamp, proxy_arg, proxy, max_timeout, forks_arg, forks,
                 forks_model, solve_tasks, escaped, gatherExc, raceVars, identVars>>

Setup ==
  /\ pc = "try"
  /\ \E mkdir_ok \in BOOLEAN :
       IF (solver_args.debug_dir # <<>> \/ solver_args.challenge_screenshots_dir # <<>>)
          /\ ~mkdir_ok
       THEN /\ envelope' = << ErrorEnvelope([of |-> SetupOf, text |-> MkdirFailText],
                                            start_timestamp, now) >>
            /\ pc' = "done"
            /\ local_solver_args' = local_solver_args
       ELSE /\ local_solver_args' =
                 [debug_dir |-> IsolatedDir(solver_args.debug_dir),
                  challenge_screenshots_dir |-> IsolatedDir(solver_args.challenge_screenshots_dir)]
            /\ pc' = "plan"
            /\ envelope' = envelope
  /\ UNCHANGED <<now, confVars, start_timestamp, proxy_arg, proxy, max_timeout, forks_arg, forks, forks_model,
                 solve_tasks, escaped, gatherExc, raceVars, identVars>>

RECURSIVE ExpandForks_GroupIndex(_, _, _)
\* The factories without a counter advanced per member: the members of a
\* group share the index the group started with.
ExpandForks_GroupIndex(fs, g, cur) ==
  IF g > Len(fs) THEN <<>>
  ELSE [k \in 1..fs[g].forks |-> [fork_i |-> cur, deferred |-> TRUE, group |-> g,
                                   kwargs |-> ForkKwargs]]
       \o ExpandForks_GroupIndex(fs, g + 1, cur + fs[g].forks)

RECURSIVE ExpandForks(_, _, _)
\* Lines 263-275: one factory per member, groups in order, members in order.
ExpandForks(fs, g, cur) ==
  IF g > Len(fs) THEN <<>>
  ELSE [k \in 1..fs[g].forks |-> [fork_i |-> cur + k - 1, deferred |-> TRUE, group |-> g,
                                   kwargs |-> ForkKwargs]]
       \o ExpandForks(fs, g + 1, cur + fs[g].forks)

\* The fork plan built without line 260: a request that gives no forks gets
\* the primary alone, whatever the configured default.
BuildForkPlan_NoDefault ==
  /\ pc = "plan"
  /\ \E fp \in {<<>>} \cup { <<l>> : l \in ForkLists } :
       LET fs == IF fp = <<>> THEN <<>> ELSE fp[1] IN
       /\ forks_arg' = fp
       /\ forks' = fs
       /\ forks_model' = Len(fs)
       /\ solve_tasks' = << [fork_i |-> 0, deferred |-> FALSE, group |-> 0,
                            kwargs |-> PrimaryKwargs] >>
                         \o ExpandForks(fs, 1, 1)
  /\ pc' = "gather"
  /\ cpc' = "launch"
  /\ ipc' = "start"
  /\ UNCHANGED <<now, confVars, start_timestamp, proxy_arg, proxy, max_timeout, local_solver_args,
                 envelope, escaped, gatherExc, tasks, task_features, to_cancel_tasks,
                 skipped_results, exceptions, raceResult, raceError, raceStart, completed,
                 processed, deadline, identErr, identStarts, identArgs>>

\* Lines 249-281: the fork plan, then gather() makes a task of the race
\* coordinator and one of the identity fetch.  forks_model is the loop
\* variable: after the loops it is bound to the last group.
BuildForkPlan ==
  /\ pc = "plan"
  /\ \E fp \in {<<>>} \cup { <<l>> : l \in ForkLists } :
       LET fs == IF fp = <<>> THEN request_processing_default_args.forks ELSE fp[1] IN
       /\ forks_arg' = fp
       /\ forks' = fs
       /\ forks_model' = Len(fs)
       /\ solve_tasks' = << [fork_i |-> 0, deferred |-> FALSE, group |-> 0,
                            kwargs |-> PrimaryKwargs] >>
                         \o ExpandForks(fs, 1, 1)
  /\ pc' = "gather"
  /\ cpc' = "launch"
  /\ ipc' = "start"
  /\ UNCHANGED <<now, confVars, start_timestamp, proxy_arg, proxy, max_timeout, local_solver_args,
                 envelope, escaped, gatherExc, tasks, task_features, to_cancel_tasks,
                 skipped_results, exceptions, raceResult, raceError, raceStart, completed,
                 processed, deadline, identErr, identStarts, identArgs>>

\* gather() without return_exceptions: the first exception of a child is
\* the exception of the gather; later ones are dropped.
GatherNote(ge, e) == IF ge = <<>> THEN <<e>> ELSE ge

\* ---------------------------------------------- wait_first_non_exception
\* A wait that a failed task does not wake.
IsDone_FailureUnseen(t) == t.st \in {"ok", "cancelled"}

IsDone(t) == t.st \in {"ok", "failed", "cancelled"}

\* Task.cancel(): a request to a task that is not done; a no-op otherwise.
CancelAll(ts, S) ==
  [k \in DOMAIN ts |->
     IF k \in S /\ ~IsDone(ts[k])
     THEN [ts[k] EXCEPT !.st = "cancelled", !.cancels = @ + 1]
     ELSE ts[k]]

\* The launch with deffered_call's sleep left out: every wrapper goes on to
\* its inner factory at its first step.
LaunchTasks_NoSleep ==
  /\ cpc = "launch"
  /\ tasks' = [k \in 1..Len(solve_tasks) |->
       LET timeout == IF solve_tasks[k].deferred THEN forks[forks_model].delay ELSE 0 IN
       [st |-> "ready",
        wakeAt |-> now + timeout, startedAt |-> -1, doneAt |-> -1, cancels |-> 0,
        calls |-> 0, solver |-> "none", args |-> <<>>, err |-> NoErr]]
  /\ task_features' = 1..Len(solve_tasks)
  /\ raceStart' = now
  /\ cpc' = "waiting"
  /\ UNCHANGED <<now, confVars, reqVars, gatherExc, to_cancel_tasks, skipped_results,
                 exceptions, raceResult, raceError, completed, processed, identVars>>

\* Line 129: every factory is called and its coroutine made a task.  A fork
\* factory reads forks_model.delay when it is called (line 272).  The task
\* of a deffered_call starts at line 156: it sleeps when timeout > 0.
LaunchTasks ==
  /\ cpc = "launch"
  /\ tasks' = [k \in 1..Len(solve_tasks) |->
       LET timeout == IF solve_tasks[k].deferred THEN forks[forks_model].delay ELSE 0 IN
       [st |-> IF timeout > 0 THEN "sleeping" ELSE "ready",
        wakeAt |-> now + timeout, startedAt |-> -1, doneAt |-> -1, cancels |-> 0,
        calls |-> 0, solver |-> "none", args |-> <<>>, err |-> NoErr]]
  /\ task_features' = 1..Len(solve_tasks)
  /\ raceStart' = now
  /\ cpc' = "waiting"
  /\ UNCHANGED <<now, confVars, reqVars, gatherExc, to_cancel_tasks, skipped_results,
                 exceptions, raceResult, raceError, completed, processed, identVars>>

\* The attempts taking their first step without regard to get_user_agent's
\* place in the ready queue, as if they had been scheduled ahead of gather().
AttemptStart_AheadOfGather(k) ==
  /\ k \in DOMAIN tasks
  /\ \/ tasks[k].st = "ready"
     \/ tasks[k].st = "sleeping" /\ now >= tasks[k].wakeAt
  /\ LET kwargs == solve_tasks[k].kwargs IN
     IF SolveCallAccepted(kwargs)
     THEN /\ tasks' = [tasks EXCEPT ![k].st = "running", ![k].startedAt = now,
                                    ![k].calls = @ + 1,
                                    ![k].solver = "invoked",
                                    ![k].args = << [proxy |-> proxy,
                                                    solver_args |-> local_solver_args] >>]
          /\ completed' = completed
     ELSE /\ tasks' = [tasks EXCEPT ![k].st = "failed", ![k].startedAt = now,
                                    ![k].calls = @ + 1,
                                    ![k].doneAt = now,
                                    ![k].err = [of |-> solve_tasks[k].fork_i,
                                                text |-> UnexpectedKwText]]
          /\ completed' = Append(completed, k)
  /\ UNCHANGED <<now, confVars, reqVars, gatherExc, cpc, task_features, to_cancel_tasks,
                 skipped_results, exceptions, raceResult, raceError, raceStart, processed,
                 identVars>>

\* Lines 155-158 and 180-195: the attempt calls solve().  The attempts are
\* behind get_user_agent in the loop's ready queue.  deffered_call
\* first sleeps its delay.  The call reaches the Solver when solve() accepts
\* its arguments.
AttemptStart(k) ==
  /\ k \in DOMAIN tasks
  /\ ipc # "start"
  /\ \/ tasks[k].st = "ready"
     \/ tasks[k].st = "sleeping" /\ now >= tasks[k].wakeAt
  /\ LET kwargs == solve_tasks[k].kwargs IN
     IF SolveCallAccepted(kwargs)
     THEN /\ tasks' = [tasks EXCEPT ![k].st = "running", ![k].startedAt = now,
                                    ![k].calls = @ + 1,
                                    ![k].solver = "invoked",
                                    ![k].args = << [proxy |-> proxy,
                                                    solver_args |-> local_solver_args] >>]
          /\ completed' = completed
     ELSE /\ tasks' = [tasks EXCEPT ![k].st = "failed", ![k].startedAt = now,
                                    ![k].calls = @ + 1,
                                    ![k].doneAt = now,
                                    ![k].err = [of |-> solve_tasks[k].fork_i,
                                                text |-> UnexpectedKwText]]
          /\ completed' = Append(completed, k)
  /\ UNCHANGED <<now, confVars, reqVars, gatherExc, cpc, task_features, to_cancel_tasks,
                 skipped_results, exceptions, raceResult, raceError, raceStart, processed,
                 identVars>>

\* The tasks made at line 129 take their first step in the loop iteration
\* that follows; I/O results, timers and cancellations come after it.
FirstStepsTaken == \A k \in DOMAIN tasks : tasks[k].st # "ready"

\* Lines 192-195: the Solver returns or raises.
SolverFinish(k) ==
  /\ k \in DOMAIN tasks
  /\ FirstStepsTaken
  /\ tasks[k].st = "running"
  /\ \E ok \in BOOLEAN :
       tasks' = [tasks EXCEPT
         ![k].st = IF ok THEN "ok" ELSE "failed",
         ![k].doneAt = now,
         ![k].solver = IF ok THEN "ok" ELSE "fail",
         ![k].err = IF ok THEN NoErr
                    ELSE [of |-> solve_tasks[k].fork_i,
                          text |-> SolverFailText(solve_tasks[k].fork_i)]]
  /\ completed' = Append(completed, k)
  /\ UNCHANGED <<now, confVars, reqVars, gatherExc, cpc, task_features, to_cancel_tasks,
                 skipped_results, exceptions, raceResult, raceError, raceStart, processed,
                 identVars>>

\* A predicate that turns down the result of the first factory.
return_condition_NotFirst(res) == res.of \in accepts \ {0}

\* return_condition (line 128): the default accepts every result.
return_condition(res) == res.of \in accepts

RECURSIVE ProcessFinished_SkipDropped(_, _, _, _, _)
\* The loop without line 144: a result the predicate rejects is passed over
\* and not kept.
ProcessFinished_SkipDropped(order, n, remaining, skipped, excs) ==
  IF n > Len(order)
  THEN [exit |-> "none", res |-> <<>>, err |-> <<>>, skipped |-> skipped, excs |-> excs,
        visited |-> Len(order)]
  ELSE LET t == tasks[order[n]] IN
       IF t.st = "ok"
       THEN LET res == SolveResult(solve_tasks[order[n]].fork_i) IN
            IF return_condition(res)
            THEN [exit |-> "return", res |-> <<res>>, err |-> <<>>,
                  skipped |-> skipped, excs |-> excs, visited |-> n]
            ELSE ProcessFinished_SkipDropped(order, n + 1, remaining, skipped, excs)
       ELSE IF remaining = {}
            THEN [exit |-> "raise", res |-> <<>>, err |-> <<t.err>>,
                  skipped |-> skipped, excs |-> Append(excs, t.err), visited |-> n]
            ELSE ProcessFinished_SkipDropped(order, n + 1, remaining, skipped,
                                             Append(excs, t.err))

RECURSIVE ProcessFinished(_, _, _, _, _)
\* Lines 138-148: the second for loop, visiting finished in the order given.
\* remaining is task_features after the removals of lines 136-137.
ProcessFinished(order, n, remaining, skipped, excs) ==
  IF n > Len(order)
  THEN [exit |-> "none", res |-> <<>>, err |-> <<>>, skipped |-> skipped, excs |-> excs,
        visited |-> Len(order)]
  ELSE LET t == tasks[order[n]] IN
       IF t.st = "ok"
       THEN LET res == SolveResult(solve_tasks[order[n]].fork_i) IN
            IF return_condition(res)
            THEN [exit |-> "return", res |-> <<res>>, err |-> <<>>,
                  skipped |-> skipped, excs |-> excs, visited |-> n]
            ELSE ProcessFinished(order, n + 1, remaining, Append(skipped, res), excs)
       ELSE IF remaining = {}
            THEN [exit |-> "raise", res |-> <<>>, err |-> <<t.err>>,
                  skipped |-> skipped, excs |-> Append(excs, t.err), visited |-> n]
            ELSE ProcessFinished(order, n + 1, remaining, skipped, Append(excs, t.err))

\* Lines 134-152: asyncio.wait returns, the finished tasks are handled, and
\* the coroutine returns, raises or waits again.  finished is a set: the
\* loop visits it in any order.  The finally block runs on every exit.
WaitReturns ==
  /\ cpc = "waiting"
  /\ LET finished == { k \in task_features : IsDone(tasks[k]) }
         pending == task_features \ finished
     IN
     /\ finished # {}
     /\ \E order \in Orders(finished) :
          LET r == ProcessFinished(order, 1, pending, skipped_results, exceptions) IN
          /\ task_features' = pending
          /\ to_cancel_tasks' = pending
          /\ skipped_results' = r.skipped
          /\ exceptions' = r.excs
          /\ raceResult' = r.res
          /\ raceError' = r.err
          /\ processed' = processed \o SubSeq(order, 1, r.visited)
          /\ IF r.exit = "return"
             THEN /\ cpc' = "returned"
                  /\ tasks' = CancelAll(tasks, pending)
                  /\ gatherExc' = gatherExc
             ELSE IF r.exit = "raise"
             THEN /\ cpc' = "raised"
                  /\ tasks' = CancelAll(tasks, pending)
                  /\ gatherExc' = GatherNote(gatherExc, r.err[1])
             ELSE IF pending = {}
             THEN /\ cpc' = "exhausted"
                  /\ tasks' = CancelAll(tasks, pending)
                  /\ gatherExc' = gatherExc
             ELSE /\ cpc' = "waiting"
                  /\ tasks' = tasks
                  /\ gatherExc' = gatherExc
  /\ UNCHANGED <<now, confVars, reqVars, raceStart, completed, identVars>>

\* ------------------------------------------------------- get_user_agent
\* Lines 168-171: the keyword arguments the Solver of the identity fetch is
\* constructed with: log_prefix and **solver_args.  get_user_agent has no
\* proxy parameter and passes none on.
UserAgentSolverArgs(args) == [solver_args |-> args]

\* Lines 167-173: the probe is started under wait_for(max_timeout / 1000).
\* gather() queued the coordinator first, so its first step has been taken.
IdentityStart ==
  /\ ipc = "start"
  /\ cpc # "launch"
  /\ ipc' = "pending"
  /\ deadline' = now + (max_timeout \div MsPerSec)
  /\ identStarts' = identStarts + 1
  /\ identArgs' = << UserAgentSolverArgs(local_solver_args) >>
  /\ UNCHANGED <<now, confVars, reqVars, gatherExc, raceVars, identErr>>

\* The probe returns the user agent, or raises (line 177 wraps the failure).
IdentityFinish ==
  /\ ipc = "pending"
  /\ FirstStepsTaken
  /\ \E ok \in BOOLEAN :
       IF ok
       THEN /\ ipc' = "ok"
            /\ identErr' = identErr
            /\ gatherExc' = gatherExc
       ELSE /\ ipc' = "failed"
            /\ identErr' = [of |-> IdentityOf, text |-> UserAgentErrText(<<"probe failure">>)]
            /\ gatherExc' = GatherNote(gatherExc, identErr')
  /\ UNCHANGED <<now, confVars, reqVars, raceVars, deadline, identStarts, identArgs>>

\* Lines 174-177: wait_for expires.
IdentityTimeout ==
  /\ ipc = "pending"
  /\ FirstStepsTaken
  /\ now >= deadline
  /\ ipc' = "timeout"
  /\ identErr' = [of |-> IdentityOf, text |-> UserAgentErrText(TimeoutText(max_timeout))]
  /\ gatherExc' = GatherNote(gatherExc, identErr')
  /\ UNCHANGED <<now, confVars, reqVars, raceVars, deadline, identStarts, identArgs>>

\* ------------------------------------- process_solve_request, continued
NoneTypeText == <<"'NoneType' object has no attribute 'user_agent'">>
UserAgent == <<"Mozilla/5.0">>

\* gather() called with return_exceptions: a failed identity fetch no longer
\* raises, its exception is handed on as the user agent.
GatherOutcome_ReturnExceptions(ge, c, i, res, start, end) ==
  IF ge # <<>> /\ ge[1].of # IdentityOf THEN << ErrorEnvelope(ge[1], start, end) >>
  ELSE IF c \in {"returned", "exhausted"} /\ i \in {"ok", "failed", "timeout"}
  THEN IF res = <<>>
       THEN << ErrorEnvelope([of |-> SetupOf, text |-> NoneTypeText], start, end) >>
       ELSE << OkEnvelope(res[1], UserAgent, start, end) >>
  ELSE <<>>

\* Lines 278-312: what the await of gather() gives process_solve_request:
\* <<>> while it is suspended, else the envelope it returns.
GatherOutcome(ge, c, i, res, start, end) ==
  IF ge # <<>> THEN << ErrorEnvelope(ge[1], start, end) >>
  ELSE IF c \in {"returned", "exhausted"} /\ i = "ok"
  THEN IF res = <<>>
       THEN << ErrorEnvelope([of |-> SetupOf, text |-> NoneTypeText], start, end) >>
       ELSE << OkEnvelope(res[1], UserAgent, start, end) >>
  ELSE <<>>

Respond ==
  /\ pc = "gather"
  /\ GatherOutcome(gatherExc, cpc, ipc, raceResult, start_timestamp, now) # <<>>
  /\ envelope' = GatherOutcome(gatherExc, cpc, ipc, raceResult, start_timestamp, now)
  /\ pc' = "done"
  /\ UNCHANGED <<now, confVars, start_timestamp, proxy_arg, proxy, max_timeout, local_solver_args,
                 forks_arg, forks, forks_model, solve_tasks, escaped, gatherExc, raceVars,
                 identVars>>

\* The task running process_solve_request is cancelled while it awaits
\* gather(): gather cancels its children.  CancelledError is not an
\* Exception, so only the finally block of the coordinator runs (lines
\* 149-151), with to_cancel_tasks as the last asyncio.wait left it.
CancelRequest ==
  /\ pc = "gather"
  /\ gatherExc = <<>>
  /\ cpc \in {"launch", "waiting"} \/ ipc \in {"start", "pending"}
  /\ cpc = "launch" \/ (ipc # "start" /\ FirstStepsTaken)
  /\ pc' = "cancelled"
  /\ IF cpc = "waiting"
     THEN /\ cpc' = "cancelled"
          /\ tasks' = CancelAll(tasks, to_cancel_tasks)
     ELSE /\ cpc' = IF cpc = "launch" THEN "cancelled" ELSE cpc
          /\ tasks' = tasks
  /\ ipc' = IF ipc \in {"start", "pending"} THEN "cancelled" ELSE ipc
  /\ UNCHANGED <<now, confVars, start_timestamp, proxy_arg, proxy, max_timeout, local_solver_args,
                 forks_arg, forks, forks_model, solve_tasks, envelope, escaped, gatherExc,
                 task_features, to_cancel_tasks, skipped_results, exceptions, raceResult,
                 raceError, raceStart, completed, processed, deadline, identErr,
                 identStarts, identArgs>>

\* ------------------------------------------------------------- the clock
\* Time passes while some task is suspended; the code before gather() has
\* no suspension point.
Active ==
  \/ cpc \in {"launch", "waiting"}
  \/ ipc \in {"start", "pending"}
  \/ \E k \in DOMAIN tasks : ~IsDone(tasks[k])

\* A coroutine the event loop can resume now: it was just created, its
\* sleep or its wait_for has expired, or what it awaits is done.
Runnable ==
  \/ cpc = "launch"
  \/ ipc = "start"
  \/ ipc = "pending" /\ now >= deadline
  \/ ~FirstStepsTaken
  \/ \E k \in DOMAIN tasks : tasks[k].st = "sleeping" /\ now >= tasks[k].wakeAt
  \/ cpc = "waiting" /\ \E k \in task_features : IsDone(tasks[k])
  \/ pc = "gather" /\ GatherOutcome(gatherExc, cpc, ipc, raceResult, start_timestamp, now) # <<>>

\* A second passes.  The event loop runs what is runnable before the clock
\* moves on.
Tick ==
  /\ now < MaxTime
  /\ Active
  /\ ~Runnable
  /\ now' = now + 1
  /\ UNCHANGED <<confVars, reqVars, gatherExc, raceVars, identVars>>

Next ==
  \/ Entry
  \/ Setup
  \/ BuildForkPlan
  \/ LaunchTasks
  \/ \E k \in 1..MaxAttempts : AttemptStart(k)
  \/ \E k \in 1..MaxAttempts : SolverFinish(k)
  \/ WaitReturns
  \/ IdentityStart
  \/ IdentityFinish
  \/ IdentityTimeout
  \/ Respond
  \/ CancelRequest
  \/ Tick

Spec == Init /\ [][Next]_vars

\* -------------------------------------------- the proxy, up to dispatch
\* The request from its entry to the first step of its attempts, over the
\* wider range of proxy arguments.
EntryAnyProxy == EntryWith(AllProxyInputs)

NextProxy ==
  \/ EntryAnyProxy
  \/ Setup
  \/ BuildForkPlan
  \/ LaunchTasks
  \/ IdentityStart
  \/ \E k \in 1..MaxAttempts : AttemptStart(k)
  \/ Tick

SpecProxy == Init /\ [][NextProxy]_vars

\* ------------------------------------------------- concurrent requests
\* Several requests run lines 237-247 against the one module-level
\* solver_args.  local_solver_args names a dict: own tells whether it is a
\* dict of the request's own or the shared one; made are the directories the
\* request created; seen is what its Solvers were constructed from.
NewRequest ==
  /\ Len(rq) < MaxRequests
  /\ rq' = Append(rq, [pc |-> "copy", own |-> TRUE,
                       local |-> [debug_dir |-> <<>>, challenge_screenshots_dir |-> <<>>],
                       made |-> {}, seen |-> <<>>])
  /\ UNCHANGED <<now, solver_args, request_processing_default_args, accepts, uuid_next,
                 reqVars, gatherExc, raceVars, identVars>>

\* An assignment in place of the copy: both names refer to the shared dict.
copy_copy_SameDict(d) == [own |-> FALSE, local |-> d]

\* copy.copy(d) of a dict: a new dict holding the same items.
copy_copy(d) == [own |-> TRUE, local |-> d]

\* The dict the request's local_solver_args names.
LocalDict(r) == IF rq[r].own THEN rq[r].local ELSE solver_args

\* Line 237.
ReqCopy(r) ==
  /\ r \in DOMAIN rq
  /\ rq[r].pc = "copy"
  /\ rq' = [rq EXCEPT ![r].pc = "debug_dir",
                      ![r].own = copy_copy(solver_args).own,
                      ![r].local = copy_copy(solver_args).local]
  /\ UNCHANGED <<now, solver_args, request_processing_default_args, accepts, uuid_next,
                 reqVars, gatherExc, raceVars, identVars>>

\* Lines 239-242 and 244-247: when the directory is configured, a
\* subdirectory named by a fresh uuid4 is made and stored under the key in
\* the dict local_solver_args names.  mkdir may fail; the request then ends.
ReqMakeDir(r, key, from, to) ==
  /\ r \in DOMAIN rq
  /\ rq[r].pc = from
  /\ LET base == LocalDict(r)[key]
         dir == base \o <<"/">> \o str(uuid_next)
     IN
     IF base = <<>>
     THEN /\ rq' = [rq EXCEPT ![r].pc = to]
          /\ UNCHANGED <<solver_args, uuid_next>>
     ELSE /\ uuid_next' = uuid_next + 1
          /\ \E mkdir_ok \in BOOLEAN :
               IF ~mkdir_ok
               THEN /\ rq' = [rq EXCEPT ![r].pc = "failed"]
                    /\ solver_args' = solver_args
               ELSE IF rq[r].own
               THEN /\ rq' = [rq EXCEPT ![r].pc = to, ![r].local[key] = dir,
                                       ![r].made = @ \cup {dir}]
                    /\ solver_args' = solver_args
               ELSE /\ rq' = [rq EXCEPT ![r].pc = to, ![r].made = @ \cup {dir}]
                    /\ solver_args' = [solver_args EXCEPT ![key] = dir]
  /\ UNCHANGED <<now, request_processing_default_args, accepts, reqVars, gatherExc,
                 raceVars, identVars>>

ReqDebugDir(r) == ReqMakeDir(r, "debug_dir", "debug_dir", "screenshots_dir")
ReqScreenshotsDir(r) ==
  ReqMakeDir(r, "challenge_screenshots_dir", "screenshots_dir", "dispatch")

\* Lines 168-171 and 188-191: the Solvers of the request's attempts and of
\* its identity fetch are constructed from **local_solver_args, some time
\* after the factories were built.
ReqSolve(r) ==
  /\ r \in DOMAIN rq
  /\ rq[r].pc = "dispatch"
  /\ rq' = [rq EXCEPT ![r].pc = "solving", ![r].seen = << LocalDict(r) >>]
  /\ UNCHANGED <<now, solver_args, request_processing_default_args, accepts, uuid_next,
                 reqVars, gatherExc, raceVars, identVars>>

NextConfig ==
  \/ NewRequest
  \/ \E r \in 1..MaxRequests : ReqCopy(r)
  \/ \E r \in 1..MaxRequests : ReqDebugDir(r)
  \/ \E r \in 1..MaxRequests : ReqScreenshotsDir(r)
  \/ \E r \in 1..MaxRequests : ReqSolve(r)

SpecConfig == Init /\ [][NextConfig]_vars

\* ------------------------------------- the coordinator with a predicate
\* wait_first_non_exception called on a batch of task factories with a
\* return_condition of the caller's (line 128): the batch is n coroutine
\* functions, the predicate accepts the results of some of them.
CallCoordinator ==
  /\ pc = "entry"
  /\ cpc = "idle"
  /\ \E n \in 1..MaxAttempts, acc \in SUBSET AllAttempts :
       /\ solve_tasks' = [k \in 1..n |-> [fork_i |-> k - 1, deferred |-> FALSE, group |-> 0,
                                        kwargs |-> {}]]
       /\ accepts' = acc
  /\ pc' = "batch"
  /\ cpc' = "launch"
  /\ UNCHANGED <<now, solver_args, request_processing_default_args, rq, uuid_next,
                 start_timestamp, proxy_arg, proxy, max_timeout, local_solver_args,
                 forks_arg, forks, forks_model, envelope, escaped, gatherExc, tasks,
                 task_features, to_cancel_tasks, skipped_results, exceptions, raceResult,
                 raceError, raceStart, completed, processed, identVars>>

NextRace ==
  \/ CallCoordinator
  \/ LaunchTasks
  \/ \E k \in 1..MaxAttempts : AttemptStart(k)
  \/ \E k \in 1..MaxAttempts : SolverFinish(k)
  \/ WaitReturns

SpecRace == Init /\ [][NextRace]_vars

\* ------------------------------------------ a batch with deffered_call
\* wait_first_non_exception with the default return_condition, called on a
\* batch of factories each of which is a coroutine function or
\* deffered_call(a coroutine function, timeout), with one timeout for the
\* wrappers of the batch; a timeout may be negative or zero.
CallDeferredBatch ==
  /\ pc = "entry"
  /\ cpc = "idle"
  /\ \E n \in 1..MaxBatch :
       \E wrapped \in [1..n -> BOOLEAN], timeout \in (-1)..MaxDelay :
         /\ (\A k \in 1..n : ~wrapped[k]) => timeout = 0
         /\ solve_tasks' = [k \in 1..n |-> [fork_i |-> k - 1, deferred |-> wrapped[k],
                                             group |-> IF wrapped[k] THEN 1 ELSE 0,
                                             kwargs |-> {}]]
         /\ forks' = << [forks |-> Cardinality({ k \in 1..n : wrapped[k] }),
                         delay |-> timeout] >>
  /\ forks_model' = 1
  /\ pc' = "batch"
  /\ cpc' = "launch"
  /\ UNCHANGED <<now, confVars, start_timestamp, proxy_arg, proxy, max_timeout,
                 local_solver_args, forks_arg, envelope, escaped, gatherExc, tasks,
                 task_features, to_cancel_tasks, skipped_results, exceptions, raceResult,
                 raceError, raceStart, completed, processed, identVars>>

NextDeferred ==
  \/ CallDeferredBatch
  \/ LaunchTasks
  \/ \E k \in 1..MaxBatch : AttemptStart(k)
  \/ \E k \in 1..MaxBatch : SolverFinish(k)
  \/ WaitReturns
  \/ Tick

SpecDeferred == Init /\ [][NextDeferred]_vars

\* The event loop runs every coroutine that can be resumed and fires every
\* timer that is due; every task that was started comes to an end.
FairDeferred ==
  /\ WF_vars(LaunchTasks)
  /\ \A k \in 1..MaxBatch : WF_vars(AttemptStart(k))
  /\ \A k \in 1..MaxBatch : WF_vars(SolverFinish(k))
  /\ WF_vars(WaitReturns)
  /\ WF_vars(Tick)

SpecDeferredFair == SpecDeferred /\ FairDeferred

\* --------------------------- every caller with the default predicate
\* The coordinator as process_solve_request calls it and as a caller with
\* a batch of its own calls it, the return_condition left at its default.
\* The steps of the coordinator and of its tasks are those of Next.
NextDefault ==
  \/ CallDeferredBatch
  \/ Next

SpecDefault == Init /\ [][NextDefault]_vars

\* ------------------------------------------ the cookies of the solution
\* Lines 278-281: gather() returns the solve response of the winning attempt
\* and the user agent.  The response carries the cookies the Solver found.
GatherReturns ==
  /\ pc = "entry"
  /\ \E cs \in CookieLists :
       raceResult' = << [SolveResult(0) EXCEPT !.cookies = cs] >>
  /\ pc' = "gather"
  /\ cpc' = "returned"
  /\ ipc' = "ok"
  /\ UNCHANGED <<now, confVars, start_timestamp, proxy_arg, proxy, max_timeout,
                 local_solver_args, forks_arg, forks, forks_model, solve_tasks, envelope,
                 escaped, gatherExc, tasks, task_features, to_cancel_tasks, skipped_results,
                 exceptions, raceError, raceStart, completed, processed, deadline, identErr,
                 identStarts, identArgs>>

NextCookies ==
  \/ GatherReturns
  \/ Respond

SpecCookies == Init /\ [][NextCookies]_vars

\* ------------------------------------------------------------ properties
RaceExited == cpc \in {"returned", "raised", "exhausted", "cancelled"}
Forked(k) == solve_tasks[k].deferred
Succeeded == { k \in DOMAIN tasks : tasks[k].st = "ok" }

\* C1: a task failure becomes the terminal error of the batch only if no
\* task is outstanding and no task has completed successfully; when some
\* task completed successfully the coordinator does not raise.
C1_FailureOnlyWithoutSuccess ==
  cpc = "raised" => /\ task_features = {}
                    /\ Succeeded = {}

\* C2: every forked attempt that starts is an invocation of the Solver, and
\* when the primary fails, the Solver succeeds for a forked attempt and the
\* identity fetch succeeds, the envelope has status "ok".
C2_ForkInvokesSolver ==
  /\ \A k \in DOMAIN tasks :
       Forked(k) /\ tasks[k].startedAt >= 0 => tasks[k].solver # "none"
  /\ ( /\ envelope # <<>>
       /\ tasks # <<>>
       /\ tasks[1].solver = "fail"
       /\ \E k \in DOMAIN tasks : Forked(k) /\ tasks[k].solver = "ok"
       /\ ipc = "ok" )
     => envelope[1].status = "ok"

\* C3: a member of a fork group with delay d calls solve() no earlier than d
\* seconds after the race was started.
C3_ForkNotBeforeItsDelay ==
  \A k \in DOMAIN tasks :
    Forked(k) /\ tasks[k].startedAt >= 0
      => tasks[k].startedAt >= raceStart + forks[solve_tasks[k].group].delay

\* C4: no exception leaves process_solve_request; every failure gives an
\* envelope with status "error", message "Error: " + text and no solution.
C4_NoExceptionEscapes ==
  /\ escaped = <<>>
  /\ envelope # <<>> /\ envelope[1].status = "error"
       => /\ Head(envelope[1].message) = "Error: "
          /\ envelope[1].solution = <<>>

\* C5: when exactly one attempt of the batch succeeds, the coordinator
\* returns that attempt's result, and every other attempt that had not
\* completed is cancelled exactly once.
C5_SingleSuccessWins ==
  cpc \in {"returned", "raised", "exhausted"} /\ Cardinality(Succeeded) = 1
    => \A w \in Succeeded :
         /\ raceResult = << SolveResult(solve_tasks[w].fork_i) >>
         /\ \A k \in DOMAIN tasks \ {w} :
              \/ tasks[k].st = "failed" /\ tasks[k].cancels = 0
              \/ tasks[k].st = "cancelled" /\ tasks[k].cancels = 1

\* C6: after every exit of wait_first_non_exception, its own cancellation
\* included, every task that had not completed has been cancelled.
C6_CancelOnEveryExit ==
  RaceExited => \A k \in DOMAIN tasks : IsDone(tasks[k])

\* C7: once the envelope is produced, every attempt task has completed or
\* has been cancelled.
C7_NoAttemptOutlivesEnvelope ==
  envelope # <<>> => \A k \in DOMAIN tasks : IsDone(tasks[k])

C9_IdentityMandatory ==
  envelope # <<>> =>
    /\ envelope[1].status = "ok" => /\ cpc = "returned"
                                    /\ raceResult # <<>>
                                    /\ ipc = "ok"
    /\ ipc \in {"failed", "timeout"} => /\ envelope[1].status = "error"
                                        /\ envelope[1].solution = <<>>

C9_Witness ==
  /\ envelope # <<>>
  /\ envelope[1].status = "error"
  /\ ipc = "failed"
  /\ Succeeded # {}

\* C10: the identity probe never stays pending past its deadline; on expiry
\* get_user_agent fails with "Processing timeout (max_timeout=<msec>)"; and
\* when the sole attempt also exceeds the deadline the envelope is an error
\* whose message ends with that text, without a solution.
C10_IdentityDeadline ==
  /\ ipc = "pending" => now <= deadline
  /\ ipc = "timeout" =>
       identErr.text = <<"On user-agent getting: ", "Processing timeout (max_timeout=">>
                       \o str(max_timeout) \o <<")">>
  /\ ( /\ envelope # <<>>
       /\ ipc = "timeout"
       /\ Len(solve_tasks) = 1
       /\ ~IsDone(tasks[1]) \/ tasks[1].doneAt > deadline )
     => /\ envelope[1].status = "error"
        /\ envelope[1].solution = <<>>
        /\ envelope[1].message = <<"Error: ", "On user-agent getting: ",
                                   "Processing timeout (max_timeout=">>
                                 \o str(max_timeout) \o <<")">>

C10_Witness ==
  /\ envelope # <<>>
  /\ ipc = "timeout"
  /\ Len(solve_tasks) = 1
  /\ tasks[1].st = "running"
  /\ now >= deadline

\* C11: the number of attempt tasks handed to the race coordinator is one
\* plus the sum of the counts of the fork groups in effect, which are the
\* groups the request gives, or the configured default groups when the
\* request gives none.
GroupsInEffect ==
  IF forks_arg = <<>> THEN request_processing_default_args.forks ELSE forks_arg[1]

C11_AttemptCount ==
  /\ solve_tasks # <<>> => Len(solve_tasks) = 1 + SumForks(GroupsInEffect)
  /\ tasks # <<>> => Len(tasks) = 1 + SumForks(GroupsInEffect)

C11_Witness ==
  /\ forks_arg = <<>>
  /\ request_processing_default_args.forks # <<>>
  /\ cpc = "waiting"
  /\ Len(tasks) = 2

\* C12: every envelope carries a start and an end timestamp with
\* start <= end, and is exactly one of: status "ok" with a solution whose
\* status code is 200, or status "error" with no solution.
C12_EnvelopeShape ==
  envelope # <<>> =>
    /\ envelope[1].startTimestamp <= envelope[1].endTimestamp
    /\ \/ /\ envelope[1].status = "ok"
          /\ envelope[1].solution # <<>>
          /\ envelope[1].solution[1].status = SolutionStatus
       \/ /\ envelope[1].status = "error"
          /\ envelope[1].solution = <<>>

C12_Witness ==
  /\ envelope # <<>>
  /\ envelope[1].status = "ok"
  /\ envelope[1].startTimestamp < envelope[1].endTimestamp

\* C13: for a request that passes setup the identity fetch is started
\* exactly once and runs concurrently with the race: it starts without
\* waiting for any attempt to complete, and a successful envelope is
\* assembled only after both branches have finished.
C13_IdentityConcurrent ==
  /\ identStarts <= 1
  /\ (pc = "gather" /\ identStarts = 0) => completed = <<>>
  /\ (pc = "done" /\ solve_tasks # <<>>) => identStarts = 1
  /\ (envelope # <<>> /\ envelope[1].status = "ok") =>
       /\ identStarts = 1
       /\ cpc = "returned"
       /\ ipc = "ok"

\* The fetch and an attempt are both in flight.
C13_Witness ==
  /\ ipc = "pending"
  /\ identStarts = 1
  /\ cpc = "waiting"
  /\ \E k \in DOMAIN tasks : tasks[k].st = "running"

\* C14: the identity fetch is invoked with the same solver configuration
\* snapshot and the same normalized proxy as the attempts: the proxy its
\* Solver is given equals the proxy every attempt's Solver is given.
C14_IdentitySameProxy ==
  identArgs # <<>> =>
    /\ identArgs[1].solver_args = local_solver_args
    /\ "proxy" \in DOMAIN identArgs[1]
    /\ identArgs[1].proxy = proxy
    /\ \A k \in DOMAIN tasks :
         tasks[k].args # <<>> => tasks[k].args[1].proxy = identArgs[1].proxy

\* C16: if creating a per-request directory fails, the request is aborted
\* before any attempt starts: no attempt task and no identity fetch is
\* launched, and the result is an error envelope.
MkdirFailed ==
  /\ envelope # <<>>
  /\ envelope[1].message = <<"Error: ">> \o MkdirFailText

C16_MkdirFailureAborts ==
  MkdirFailed =>
    /\ envelope[1].status = "error"
    /\ envelope[1].solution = <<>>
    /\ pc = "done"
    /\ solve_tasks = <<>>
    /\ tasks = <<>>
    /\ cpc = "idle"
    /\ ipc = "idle"
    /\ identStarts = 0

C16_Witness ==
  /\ MkdirFailed
  /\ solver_args.debug_dir # <<>>
  /\ pc = "done"

\* C20: in the fork plan index 0 is the primary attempt, dispatched with no
\* delay wrapper; every index is unique; the indices 1..n go to the fork
\* group members in group order, then member order; and the result chosen
\* is that of the first successful attempt the coordinator came to, whatever
\* its index.
C20_ForkPlanIndexing ==
  /\ solve_tasks # <<>> =>
       /\ solve_tasks[1].fork_i = 0
       /\ ~solve_tasks[1].deferred
       /\ \A j, k \in DOMAIN solve_tasks :
            j # k => solve_tasks[j].fork_i # solve_tasks[k].fork_i
       /\ { solve_tasks[k].fork_i : k \in DOMAIN solve_tasks } = 0..(Len(solve_tasks) - 1)
       /\ \A j, k \in DOMAIN solve_tasks \ {1} :
            /\ solve_tasks[k].deferred
            /\ solve_tasks[j].fork_i < solve_tasks[k].fork_i =>
                 solve_tasks[j].group <= solve_tasks[k].group
            /\ j < k => solve_tasks[j].fork_i < solve_tasks[k].fork_i
       /\ \A g \in DOMAIN forks :
            Cardinality({ k \in DOMAIN solve_tasks : solve_tasks[k].group = g }) = forks[g].forks
  /\ tasks # <<>> => /\ tasks[1].wakeAt = raceStart
                     /\ tasks[1].st # "sleeping"
  /\ raceResult # <<>> =>
       /\ processed # <<>>
       /\ tasks[processed[Len(processed)]].st = "ok"
       /\ solve_tasks[processed[Len(processed)]].fork_i = raceResult[1].of
       /\ \A i \in 1..(Len(processed) - 1) : tasks[processed[i]].st # "ok"

C20_Witness ==
  /\ Len(forks) = 2
  /\ Len(solve_tasks) = 3
  /\ cpc = "returned"

\* C17: a structured proxy is rewritten to scheme://[user[:pass]@]host[:port]
\* with scheme, host and port taken from its url; credentials embedded in
\* the url are discarded in favour of the explicit username and password;
\* there is no credential segment when username is absent, and no proxy when
\* url is absent; a string proxy is passed through unchanged; and the same
\* normalized value is dispatched to every attempt.
CanonicalProxy(p) ==
  <<p.url[1].scheme, "://">>
  \o (IF p.username = NoneStr THEN <<>>
      ELSE <<p.username, ":", (IF p.password = NoneStr THEN "" ELSE p.password), "@">>)
  \o <<p.url[1].hostname>>
  \o (IF p.url[1].port = 0 THEN <<>> ELSE <<":">> \o str(p.url[1].port))

C17_ProxyNormalization ==
  (proxy_arg # <<>> /\ escaped = <<>>) =>
    LET p == proxy_arg[1] IN
    /\ p.kind = "none" => proxy = <<>>
    /\ p.kind = "str" => proxy = << <<p.value>> >>
    /\ (p.kind = "model" /\ p.url = <<>>) => proxy = <<>>
    /\ (p.kind = "model" /\ p.url # <<>>) =>
         /\ proxy = << CanonicalProxy(p) >>
         /\ \A i \in DOMAIN proxy[1] : proxy[1][i] # "x:y"
         /\ p.username = NoneStr => \A i \in DOMAIN proxy[1] : proxy[1][i] # "@"
    /\ \A k \in DOMAIN tasks : tasks[k].args # <<>> => tasks[k].args[1].proxy = proxy

C17_Witness ==
  /\ proxy_arg # <<>>
  /\ proxy_arg[1].kind = "model"
  /\ proxy_arg[1].url # <<>>
  /\ proxy_arg[1].url[1].auth = "x:y"
  /\ proxy_arg[1].username = "u"
  /\ proxy_arg[1].password = NoneStr
  /\ tasks # <<>>
  /\ tasks[1].args # <<>>

\* C18: the cookies of the solution are the winning attempt's cookies, each
\* with name, value and domain unchanged, path "/" and secure true when the
\* solver cookie omits them, port and expires absent when it omits them, and
\* given fields kept; their number and order are preserved.
C18_CookieTranslation ==
  (envelope # <<>> /\ envelope[1].status = "ok") =>
    LET given == raceResult[1].cookies
        out == envelope[1].solution[1].cookies
    IN
    /\ Len(out) = Len(given)
    /\ \A i \in DOMAIN given :
         /\ out[i].name = given[i].name
         /\ out[i].value = given[i].value
         /\ out[i].domain = given[i].domain
         /\ out[i].path = IF "path" \in DOMAIN given[i] THEN <<given[i].path>> ELSE <<"/">>
         /\ out[i].secure = IF "secure" \in DOMAIN given[i] THEN <<given[i].secure>> ELSE <<TRUE>>
         /\ out[i].port = IF "port" \in DOMAIN given[i] THEN <<given[i].port>> ELSE <<>>
         /\ out[i].expires = IF "expires" \in DOMAIN given[i] THEN <<given[i].expires>> ELSE <<>>

C18_Witness ==
  /\ envelope # <<>>
  /\ envelope[1].status = "ok"
  /\ Len(raceResult[1].cookies) = 2
  /\ DOMAIN raceResult[1].cookies[1] = {"name", "value", "domain"}
  /\ raceResult[1].cookies[1].name = "b"
  /\ "path" \in DOMAIN raceResult[1].cookies[2]
  /\ raceResult[1].cookies[2].name = "a"

\* C19: with an acceptance predicate, a successful result the predicate
\* rejects is appended to the skipped list and waiting continues; when a
\* result is accepted the returned triple holds that result, exactly the
\* successes skipped before it and the failures recorded before it; and if
\* every task completes without an accepted result and the last completion
\* processed is a skipped success, the coordinator returns
\* (None, skipped, exceptions) rather than raising.
ResultOf(k) == SolveResult(solve_tasks[k].fork_i)
Rejected(k) == tasks[k].st = "ok" /\ ~return_condition(ResultOf(k))
Failed(k) == tasks[k].st = "failed"

\* The tasks processed before the one that ended the call.
ProcessedBefore ==
  IF cpc = "returned" THEN SubSeq(processed, 1, Len(processed) - 1) ELSE processed

C19_PredicateRace ==
  LET oks == SelectSeq(ProcessedBefore, Rejected)
      bad == SelectSeq(processed, Failed)
  IN
  /\ \A i \in DOMAIN ProcessedBefore : Rejected(ProcessedBefore[i]) \/ Failed(ProcessedBefore[i])
  /\ skipped_results = [i \in DOMAIN oks |-> ResultOf(oks[i])]
  /\ exceptions = [i \in DOMAIN bad |-> tasks[bad[i]].err]
  /\ cpc = "returned" =>
       /\ raceResult = << ResultOf(processed[Len(processed)]) >>
       /\ tasks[processed[Len(processed)]].st = "ok"
       /\ return_condition(raceResult[1])
  /\ (/\ tasks # <<>>
      /\ Len(processed) = Len(tasks)
      /\ Rejected(processed[Len(processed)])) =>
       /\ cpc = "exhausted"
       /\ raceResult = <<>>
       /\ raceError = <<>>

\* An accepted result returned after a rejected success and a failure.
C19_Witness ==
  /\ cpc = "returned"
  /\ skipped_results # <<>>
  /\ exceptions # <<>>

\* C15: process_solve_request leaves the shared solver_args unchanged under
\* any interleaving of concurrent requests; the per-request debug and
\* screenshot paths are written only to the request's own copy, so the
\* Solvers of a request are never given a path another request allocated.
DirKeys == {"debug_dir", "challenge_screenshots_dir"}

C15_Isolated ==
  /\ solver_args \in { c.solver_args : c \in Configs }
  /\ \A r, q \in DOMAIN rq : r # q => rq[r].made \cap rq[q].made = {}
  /\ \A r \in DOMAIN rq :
       rq[r].seen # <<>> =>
         \A key \in DirKeys :
           /\ solver_args[key] = <<>> => rq[r].seen[1][key] = <<>>
           /\ solver_args[key] # <<>> =>
                /\ rq[r].seen[1][key] \in rq[r].made
                /\ \A q \in DOMAIN rq \ {r} : rq[r].seen[1][key] \notin rq[q].made

C15_CopyOnUse == [][solver_args' = solver_args]_vars /\ []C15_Isolated

\* Two requests, set up one inside the other, have both reached their Solvers.
C15_Witness ==
  /\ Len(rq) = 2
  /\ rq[1].seen # <<>>
  /\ rq[2].seen # <<>>
  /\ rq[1].seen[1].debug_dir = <<"/dbg", "/", "1">>
  /\ rq[2].seen[1].debug_dir = <<"/dbg", "/", "2">>
  /\ rq[2].seen[1].challenge_screenshots_dir = <<"/shots", "/", "3">>
  /\ rq[1].seen[1].challenge_screenshots_dir = <<"/shots", "/", "4">>

\* C21: deffered_call with a delay > 0 invokes the inner factory only after
\* the delay has fully elapsed; with a delay <= 0 it invokes it at once, with
\* no suspension; the inner factory is invoked exactly once, unless the
\* wrapper is cancelled during the delay, and then never; and the outcome of
\* the wrapper, result or failure, is the outcome of the inner task.
TimeoutOf(k) == forks[forks_model].delay

C21_DeferredCall ==
  \A k \in DOMAIN tasks :
    solve_tasks[k].deferred =>
      /\ tasks[k].calls <= 1
      /\ tasks[k].calls = 1 <=> tasks[k].startedAt >= 0
      /\ (TimeoutOf(k) > 0 /\ tasks[k].calls = 1) =>
           tasks[k].startedAt >= raceStart + TimeoutOf(k)
      /\ TimeoutOf(k) <= 0 =>
           /\ tasks[k].st # "sleeping"
           /\ tasks[k].calls = 1 => tasks[k].startedAt = raceStart
      /\ (tasks[k].st = "cancelled" /\ tasks[k].solver = "none") => tasks[k].calls = 0
      /\ tasks[k].st \in {"ok", "failed"} =>
           /\ tasks[k].calls = 1
           /\ tasks[k].st = "ok" <=> tasks[k].solver = "ok"
           /\ tasks[k].st = "failed" <=>
                (tasks[k].solver = "fail" /\ tasks[k].err.of = solve_tasks[k].fork_i)

\* A wrapper with a positive delay has handed on its inner task's result.
C21_Witness ==
  \E k \in DOMAIN tasks :
    /\ solve_tasks[k].deferred
    /\ TimeoutOf(k) > 0
    /\ tasks[k].st = "ok"
    /\ tasks[k].startedAt >= raceStart + TimeoutOf(k)

\* C22: with the default predicate and a non-empty batch,
\* wait_first_non_exception never returns a None result: on every completion
\* order it returns the result of a task that completed successfully or
\* raises the failure of a task, so process_solve_request never dereferences
\* a missing solve_response.
C22_NeverNone ==
  /\ cpc # "exhausted"
  /\ cpc = "returned" =>
       /\ raceResult # <<>>
       /\ \E k \in DOMAIN tasks : tasks[k].st = "ok" /\ raceResult[1] = ResultOf(k)
  /\ cpc = "raised" =>
       /\ raceError # <<>>
       /\ \E k \in DOMAIN tasks : tasks[k].st = "failed" /\ raceError[1] = tasks[k].err
  /\ envelope # <<>> =>
       /\ envelope[1].message # <<"Error: ">> \o NoneTypeText
       /\ envelope[1].status = "ok" => raceResult # <<>>

\* The request answered with the result of its primary attempt after the
\* coordinator had put a failure aside.
C22_Witness ==
  /\ envelope # <<>>
  /\ envelope[1].status = "ok"
  /\ exceptions # <<>>
  /\ accepts = AllAttempts

\* C23: wait_first_non_exception invokes every task factory exactly once, all
\* before it awaits any completion; if every launched task eventually
\* completes, the coordinator eventually exits by return or raise; and having
\* no deadline of its own, it exits no earlier than the first accepted
\* success or the last completion.
C23_Launched ==
  /\ cpc \in {"idle", "launch"} => (tasks = <<>> /\ processed = <<>>)
  /\ cpc \notin {"idle", "launch"} => DOMAIN tasks = DOMAIN solve_tasks

C23_NoEarlyExit ==
  /\ cpc = "returned" =>
       \E k \in DOMAIN tasks : /\ tasks[k].st = "ok"
                                /\ return_condition(ResultOf(k))
                                /\ raceResult = << ResultOf(k) >>
  /\ cpc \in {"raised", "exhausted"} =>
       \A k \in DOMAIN tasks : tasks[k].st \in {"ok", "failed"}

C23_Termination ==
  /\ [](C23_Launched /\ C23_NoEarlyExit)
  /\ (cpc = "waiting") ~> (cpc \in {"returned", "raised"})

\* The coordinator has raised after every task of a full batch failed, some
\* time after the launch.
C23_Witness ==
  /\ cpc = "raised"
  /\ Len(tasks) = MaxBatch
  /\ now > 0
  /\ \A k \in DOMAIN tasks : tasks[k].st = "failed"

====
